---- MODULE Spec2Model ----
(***************************************************************************)
(* Battery regulator: the pure decision function (regulator.py) and the    *)
(* coordinator that applies the mode-change cooldown and retries failed    *)
(* actuator commands (coordinator.py).                                     *)
(*                                                                         *)
(* Time is counted in whole seconds.  Energy forecasts (kWh, floats in the *)
(* source) are carried in tenths of a kWh and the float formulas are       *)
(* evaluated with exact integer arithmetic.                                *)
(***************************************************************************)
EXTENDS Integers, Sequences, FiniteSets, TLC

(* ---------------------------------------------------------------------- *)
(* Program constants                                                       *)
(* ---------------------------------------------------------------------- *)
MIN_MODE_CHANGE_SECONDS == 60
RETRY_DELAY_SECONDS == 5
RETRY_MAX_ATTEMPTS == 3
OFF_PEAK_CHARGE_START_HOUR == 2
OFF_PEAK_CHARGE_END_HOUR == 6
\* a stop threshold with the sign lost
SURPLUS_STOP_GRID_THRESHOLD_import == 0 - (-50)

SURPLUS_STOP_GRID_THRESHOLD == -50
DISCHARGE_GRID_OFFSET == 20
CHARGE_SURPLUS_OFFSET == 100
DEFAULT_BATTERY_CAPACITY_WH == 5120
DEFAULT_BASE_LOAD_W == 400
DEFAULT_HC_CHARGE_RATE == 1500
DEFAULT_MAX_CHARGE_RATE == 2500
DEFAULT_MAX_DISCHARGE_RATE == 2500
DEFAULT_SURPLUS_THRESHOLD == 100
DEFAULT_SURPLUS_SOC_MAX == 95
DEFAULT_DISCHARGE_MIN_POWER == 50

(* ---------------------------------------------------------------------- *)
(* Bounds of the model                                                     *)
(* ---------------------------------------------------------------------- *)
\* the clock stops at MaxTime seconds after construction
MaxTime == 120
\* the clock stops MaxElapsed seconds after the last mode change (every
\* elapsed time >= MIN_MODE_CHANGE_SECONDS passes the cooldown alike)
MaxElapsed == 60

\* an actuator call returns or raises within MaxCallSeconds seconds
MaxCallSeconds == 0

\* the largest solar forecast compute_target_soc is called with, in tenths of
\* a kWh
MaxForecast10 == 450

(* ---------------------------------------------------------------------- *)
(* regulator.py                                                            *)
(* ---------------------------------------------------------------------- *)
AUTO == "auto"
CHARGE_SURPLUS == "charge_surplus"
CHARGE_OFF_PEAK == "charge_off_peak"
DISCHARGE == "discharge"
Mode == {AUTO, CHARGE_SURPLUS, CHARGE_OFF_PEAK, DISCHARGE}

Max(a, b) == IF a >= b THEN a ELSE b
Min(a, b) == IF a <= b THEN a ELSE b

\* Python int(): truncation toward zero of the rational n / d (d > 0)
IntTrunc(n, d) == IF n >= 0 THEN n \div d ELSE -((-n) \div d)

\* Python round(): nearest integer of n / d (n >= 0, d > 0), ties to even
RoundHalfEven(n, d) ==
    LET q == n \div d
        r == n % d
    IN  IF 2 * r < d THEN q
        ELSE IF 2 * r > d THEN q + 1
        ELSE IF q % 2 = 0 THEN q ELSE q + 1

\* a target SOC without its lower limits
compute_target_soc_no_floor(tempo_color, forecast10) ==
    IF tempo_color \in {"Rouge", "Blanc"}
    THEN IntTrunc(1000 - forecast10 * 2, 10)
    ELSE IF tempo_color = "Bleu"
    THEN IntTrunc(6000 - forecast10 * 25, 100)
    ELSE IntTrunc(800 - forecast10 * 3, 10)

\* forecast10: solar_forecast_kwh in tenths of a kWh
compute_target_soc(tempo_color, forecast10) ==
    IF tempo_color \in {"Rouge", "Blanc"}
    THEN Max(IntTrunc(1000 - forecast10 * 2, 10), 60)
    ELSE IF tempo_color = "Bleu"
    THEN Max(IntTrunc(6000 - forecast10 * 25, 100), 20)
    ELSE Max(IntTrunc(800 - forecast10 * 3, 10), 20)

\* a reserve SOC that does not look at the off-peak flag
compute_reserve_soc_ignores_off_peak(is_off_peak, hour, minute, base_load_w, remaining10, battery_capacity_wh) ==
    LET minutes_to_off_peak == Max(22 * 60 - (hour * 60 + minute), 0)
        energy_needed_60 == minutes_to_off_peak * base_load_w
        solar_remaining_60 == remaining10 * 100 * 60
        energy_from_battery_60 == Max(energy_needed_60 - solar_remaining_60, 0)
        reserve == RoundHalfEven(energy_from_battery_60 * 100, 60 * battery_capacity_wh)
    IN  Max(reserve, 10)

\* a reserve SOC without its lower limit
compute_reserve_soc_no_floor(is_off_peak, hour, minute, base_load_w, remaining10, battery_capacity_wh) ==
    IF is_off_peak THEN 10
    ELSE
      LET minutes_to_off_peak == Max(22 * 60 - (hour * 60 + minute), 0)
          energy_needed_60 == minutes_to_off_peak * base_load_w
          solar_remaining_60 == remaining10 * 100 * 60
          energy_from_battery_60 == Max(energy_needed_60 - solar_remaining_60, 0)
      IN  RoundHalfEven(energy_from_battery_60 * 100, 60 * battery_capacity_wh)

\* remaining10: solar_remaining_kwh in tenths of a kWh
compute_reserve_soc(is_off_peak, hour, minute, base_load_w, remaining10, battery_capacity_wh) ==
    IF is_off_peak THEN 10
    ELSE
      LET \* hours_to_off_peak, in minutes
          minutes_to_off_peak == Max(22 * 60 - (hour * 60 + minute), 0)
          \* energy_needed_wh * 60
          energy_needed_60 == minutes_to_off_peak * base_load_w
          \* solar_remaining_wh * 60
          solar_remaining_60 == remaining10 * 100 * 60
          energy_from_battery_60 == Max(energy_needed_60 - solar_remaining_60, 0)
          reserve == RoundHalfEven(energy_from_battery_60 * 100, 60 * battery_capacity_wh)
      IN  Max(reserve, 10)

\* a battery power that is negative in Discharge too
signed_battery_power_always_negative(mode, power_abs) ==
    IF mode = AUTO THEN 0 ELSE 0 - power_abs

\* a battery power that is positive in the charging modes too
signed_battery_power_unsigned(mode, power_abs) ==
    IF mode = AUTO THEN 0 ELSE power_abs

signed_battery_power(mode, power_abs) ==
    IF mode = CHARGE_SURPLUS \/ mode = CHARGE_OFF_PEAK THEN -power_abs
    ELSE IF mode = DISCHARGE THEN power_abs
    ELSE 0

\* a clamp that limits nothing
clamp_unlimited(value, min_val, max_val) == value

clamp(value, min_val, max_val) == Max(min_val, Min(max_val, value))

Decision(mode, power, rule) ==
    [mode |-> mode, power |-> power, reason |-> [cooldown |-> FALSE, rule |-> rule]]

\* regulate with the surplus rule tested before the off-peak rule
regulate_surplus_first(state, current_mode, config) ==
    LET target_soc == compute_target_soc(state.tempo_color, state.solar_forecast_kwh)
        reserve_soc == compute_reserve_soc(state.is_off_peak, state.hour, state.minute,
                           config.base_load_w, state.solar_remaining_kwh,
                           config.battery_capacity_wh)
        bat_signed == signed_battery_power(current_mode, state.battery_power_abs)
        surplus_threshold == config.surplus_threshold
        min_charge == -config.max_charge_rate
        max_charge == -Min(100, surplus_threshold)
        surplus_power == clamp(state.grid_power + bat_signed + CHARGE_SURPLUS_OFFSET,
                               min_charge, max_charge)
        discharge_power == clamp(state.grid_power + bat_signed - DISCHARGE_GRID_OFFSET,
                                 0, config.max_discharge_rate)
    IN
    IF /\ state.grid_power < -surplus_threshold
       /\ state.solar_production > surplus_threshold
       /\ state.battery_soc < config.surplus_soc_max
    THEN Decision(CHARGE_SURPLUS, surplus_power, 3)
    ELSE IF /\ state.is_off_peak
            /\ OFF_PEAK_CHARGE_START_HOUR <= state.hour
            /\ state.hour < OFF_PEAK_CHARGE_END_HOUR
            /\ state.battery_soc < target_soc
    THEN Decision(CHARGE_OFF_PEAK, -config.off_peak_charge_rate, 1)
    ELSE IF /\ current_mode = CHARGE_OFF_PEAK
            /\ state.is_off_peak
            /\ state.battery_soc >= target_soc
    THEN Decision(AUTO, 0, 2)
    ELSE IF /\ ~state.is_off_peak
            /\ state.battery_soc > reserve_soc
            /\ current_mode # CHARGE_SURPLUS
            /\ (state.grid_power > DISCHARGE_GRID_OFFSET \/ current_mode = DISCHARGE)
            /\ state.battery_power_abs >= config.discharge_min_power
            /\ discharge_power >= config.discharge_min_power
    THEN Decision(DISCHARGE, discharge_power, 4)
    ELSE IF current_mode = CHARGE_SURPLUS /\ state.grid_power >= SURPLUS_STOP_GRID_THRESHOLD
    THEN Decision(AUTO, 0, 5)
    ELSE IF /\ current_mode = DISCHARGE
            /\ \/ state.is_off_peak
               \/ state.battery_soc <= reserve_soc
               \/ state.battery_power_abs < config.discharge_min_power
    THEN Decision(AUTO, 0, 6)
    ELSE IF current_mode = CHARGE_OFF_PEAK /\ ~state.is_off_peak
    THEN Decision(AUTO, 0, 7)
    ELSE Decision(current_mode,
                  IF current_mode = AUTO THEN 0
                  ELSE state.battery_power_abs
                       * (IF current_mode \in {CHARGE_OFF_PEAK, CHARGE_SURPLUS} THEN -1 ELSE 1),
                  8)

\* regulate without the rule that stops a discharge
regulate_no_discharge_stop(state, current_mode, config) ==
    LET target_soc == compute_target_soc(state.tempo_color, state.solar_forecast_kwh)
        reserve_soc == compute_reserve_soc(state.is_off_peak, state.hour, state.minute,
                           config.base_load_w, state.solar_remaining_kwh,
                           config.battery_capacity_wh)
        bat_signed == signed_battery_power(current_mode, state.battery_power_abs)
        surplus_threshold == config.surplus_threshold
        min_charge == -config.max_charge_rate
        max_charge == -Min(100, surplus_threshold)
        surplus_power == clamp(state.grid_power + bat_signed + CHARGE_SURPLUS_OFFSET,
                               min_charge, max_charge)
        discharge_power == clamp(state.grid_power + bat_signed - DISCHARGE_GRID_OFFSET,
                                 0, config.max_discharge_rate)
    IN
    IF /\ state.is_off_peak
       /\ OFF_PEAK_CHARGE_START_HOUR <= state.hour
       /\ state.hour < OFF_PEAK_CHARGE_END_HOUR
       /\ state.battery_soc < target_soc
    THEN Decision(CHARGE_OFF_PEAK, -config.off_peak_charge_rate, 1)
    ELSE IF /\ current_mode = CHARGE_OFF_PEAK
            /\ state.is_off_peak
            /\ state.battery_soc >= target_soc
    THEN Decision(AUTO, 0, 2)
    ELSE IF /\ state.grid_power < -surplus_threshold
            /\ state.solar_production > surplus_threshold
            /\ state.battery_soc < config.surplus_soc_max
    THEN Decision(CHARGE_SURPLUS, surplus_power, 3)
    ELSE IF /\ ~state.is_off_peak
            /\ state.battery_soc > reserve_soc
            /\ current_mode # CHARGE_SURPLUS
            /\ (state.grid_power > DISCHARGE_GRID_OFFSET \/ current_mode = DISCHARGE)
            /\ state.battery_power_abs >= config.discharge_min_power
            /\ discharge_power >= config.discharge_min_power
    THEN Decision(DISCHARGE, discharge_power, 4)
    ELSE IF current_mode = CHARGE_SURPLUS /\ state.grid_power >= SURPLUS_STOP_GRID_THRESHOLD
    THEN Decision(AUTO, 0, 5)
    ELSE IF current_mode = CHARGE_OFF_PEAK /\ ~state.is_off_peak
    THEN Decision(AUTO, 0, 7)
    ELSE Decision(current_mode,
                  IF current_mode = AUTO THEN 0
                  ELSE state.battery_power_abs
                       * (IF current_mode \in {CHARGE_OFF_PEAK, CHARGE_SURPLUS} THEN -1 ELSE 1),
                  8)

\* regulate without the rule that stops an off-peak charge when peak starts
regulate_no_peak_stop(state, current_mode, config) ==
    LET target_soc == compute_target_soc(state.tempo_color, state.solar_forecast_kwh)
        reserve_soc == compute_reserve_soc(state.is_off_peak, state.hour, state.minute,
                           config.base_load_w, state.solar_remaining_kwh,
                           config.battery_capacity_wh)
        bat_signed == signed_battery_power(current_mode, state.battery_power_abs)
        surplus_threshold == config.surplus_threshold
        min_charge == -config.max_charge_rate
        max_charge == -Min(100, surplus_threshold)
        surplus_power == clamp(state.grid_power + bat_signed + CHARGE_SURPLUS_OFFSET,
                               min_charge, max_charge)
        discharge_power == clamp(state.grid_power + bat_signed - DISCHARGE_GRID_OFFSET,
                                 0, config.max_discharge_rate)
    IN
    IF /\ state.is_off_peak
       /\ OFF_PEAK_CHARGE_START_HOUR <= state.hour
       /\ state.hour < OFF_PEAK_CHARGE_END_HOUR
       /\ state.battery_soc < target_soc
    THEN Decision(CHARGE_OFF_PEAK, -config.off_peak_charge_rate, 1)
    ELSE IF /\ current_mode = CHARGE_OFF_PEAK
            /\ state.is_off_peak
            /\ state.battery_soc >= target_soc
    THEN Decision(AUTO, 0, 2)
    ELSE IF /\ state.grid_power < -surplus_threshold
            /\ state.solar_production > surplus_threshold
            /\ state.battery_soc < config.surplus_soc_max
    THEN Decision(CHARGE_SURPLUS, surplus_power, 3)
    ELSE IF /\ ~state.is_off_peak
            /\ state.battery_soc > reserve_soc
            /\ current_mode # CHARGE_SURPLUS
            /\ (state.grid_power > DISCHARGE_GRID_OFFSET \/ current_mode = DISCHARGE)
            /\ state.battery_power_abs >= config.discharge_min_power
            /\ discharge_power >= config.discharge_min_power
    THEN Decision(DISCHARGE, discharge_power, 4)
    ELSE IF current_mode = CHARGE_SURPLUS /\ state.grid_power >= SURPLUS_STOP_GRID_THRESHOLD
    THEN Decision(AUTO, 0, 5)
    ELSE IF /\ current_mode = DISCHARGE
            /\ \/ state.is_off_peak
               \/ state.battery_soc <= reserve_soc
               \/ state.battery_power_abs < config.discharge_min_power
    THEN Decision(AUTO, 0, 6)
    ELSE Decision(current_mode,
                  IF current_mode = AUTO THEN 0
                  ELSE state.battery_power_abs
                       * (IF current_mode \in {CHARGE_OFF_PEAK, CHARGE_SURPLUS} THEN -1 ELSE 1),
                  8)

\* The reason strings of the source are abstracted to the number of the rule
\* that produced the decision (8 = "No change").
regulate(state, current_mode, config) ==
    LET target_soc == compute_target_soc(state.tempo_color, state.solar_forecast_kwh)
        reserve_soc == compute_reserve_soc(state.is_off_peak, state.hour, state.minute,
                           config.base_load_w, state.solar_remaining_kwh,
                           config.battery_capacity_wh)
        bat_signed == signed_battery_power(current_mode, state.battery_power_abs)
        surplus_threshold == config.surplus_threshold
        min_charge == -config.max_charge_rate
        max_charge == -Min(100, surplus_threshold)
        surplus_power == clamp(state.grid_power + bat_signed + CHARGE_SURPLUS_OFFSET,
                               min_charge, max_charge)
        discharge_power == clamp(state.grid_power + bat_signed - DISCHARGE_GRID_OFFSET,
                                 0, config.max_discharge_rate)
    IN
    IF /\ state.is_off_peak
       /\ OFF_PEAK_CHARGE_START_HOUR <= state.hour
       /\ state.hour < OFF_PEAK_CHARGE_END_HOUR
       /\ state.battery_soc < target_soc
    THEN Decision(CHARGE_OFF_PEAK, -config.off_peak_charge_rate, 1)
    ELSE IF /\ current_mode = CHARGE_OFF_PEAK
            /\ state.is_off_peak
            /\ state.battery_soc >= target_soc
    THEN Decision(AUTO, 0, 2)
    ELSE IF /\ state.grid_power < -surplus_threshold
            /\ state.solar_production > surplus_threshold
            /\ state.battery_soc < config.surplus_soc_max
    THEN Decision(CHARGE_SURPLUS, surplus_power, 3)
    ELSE IF /\ ~state.is_off_peak
            /\ state.battery_soc > reserve_soc
            /\ current_mode # CHARGE_SURPLUS
            /\ (state.grid_power > DISCHARGE_GRID_OFFSET \/ current_mode = DISCHARGE)
            /\ state.battery_power_abs >= config.discharge_min_power
            /\ discharge_power >= config.discharge_min_power
    THEN Decision(DISCHARGE, discharge_power, 4)
    ELSE IF current_mode = CHARGE_SURPLUS /\ state.grid_power >= SURPLUS_STOP_GRID_THRESHOLD
    THEN Decision(AUTO, 0, 5)
    ELSE IF /\ current_mode = DISCHARGE
            /\ \/ state.is_off_peak
               \/ state.battery_soc <= reserve_soc
               \/ state.battery_power_abs < config.discharge_min_power
    THEN Decision(AUTO, 0, 6)
    ELSE IF current_mode = CHARGE_OFF_PEAK /\ ~state.is_off_peak
    THEN Decision(AUTO, 0, 7)
    ELSE Decision(current_mode,
                  IF current_mode = AUTO THEN 0
                  ELSE state.battery_power_abs
                       * (IF current_mode \in {CHARGE_OFF_PEAK, CHARGE_SURPLUS} THEN -1 ELSE 1),
                  8)

(* ---------------------------------------------------------------------- *)
(* coordinator.py: state                                                   *)
(* ---------------------------------------------------------------------- *)
VARIABLES
    now,                    \* dt_util.utcnow(), seconds since construction
    current_mode,           \* self._current_mode
    last_commanded_power,   \* self._last_commanded_power
    last_mode_change_time,  \* self._last_mode_change_time
    tasks,                  \* the retry tasks on the event loop; the one with
                            \* ref = TRUE is self._retry_task
    tick_pc,                \* position of _async_update_data: "idle", or
                            \* "sending" while suspended in await set_power
    tick_call,              \* the power passed to set_power by the tick's call
    tick_called_at,         \* the instant of the tick's call of set_power
    decision,               \* the local variable decision of the suspended tick
    data,                   \* what the last finished tick returned
    tick_error,             \* TRUE when a tick ended by raising
    actuator_power,         \* the power of the last command the actuator accepted
    accepted,               \* TRUE once the actuator has accepted a command
    mode_changed_at,        \* the instant current_mode last changed, -1: never
    args,                   \* the arguments of a call of regulate
    result                  \* what that call returned

vars == <<now, current_mode, last_commanded_power, last_mode_change_time, tasks,
          tick_pc, tick_call, tick_called_at, decision, data, tick_error,
          actuator_power, accepted, mode_changed_at, args, result>>

\* no tick has returned yet
NoDecision == [mode |-> AUTO, power |-> 0, reason |-> [cooldown |-> FALSE, rule |-> 0]]

\* self._reg_config built from the defaults of const.py
reg_config ==
    [battery_capacity_wh |-> DEFAULT_BATTERY_CAPACITY_WH,
     base_load_w |-> DEFAULT_BASE_LOAD_W,
     off_peak_charge_rate |-> DEFAULT_HC_CHARGE_RATE,
     max_charge_rate |-> DEFAULT_MAX_CHARGE_RATE,
     max_discharge_rate |-> DEFAULT_MAX_DISCHARGE_RATE,
     surplus_threshold |-> DEFAULT_SURPLUS_THRESHOLD,
     surplus_soc_max |-> DEFAULT_SURPLUS_SOC_MAX,
     discharge_min_power |-> DEFAULT_DISCHARGE_MIN_POWER]

\* _read_state: the snapshot built from the sensors and the local clock
\* (forecast 0 kWh, remaining 0 kWh, no tempo sensor configured)
Snapshot(grid, solar, soc, power_abs, off_peak, hour) ==
    [grid_power |-> grid, solar_production |-> solar, battery_soc |-> soc,
     battery_power_abs |-> power_abs, is_off_peak |-> off_peak,
     hour |-> hour, minute |-> 0,
     solar_forecast_kwh |-> 0, solar_remaining_kwh |-> 0, tempo_color |-> "None"]

\* The sensor readings a tick can see
Snapshots ==
    { Snapshot(500, 0, 50, 0, TRUE, 3),        \* night, battery low
      Snapshot(500, 0, 96, 0, TRUE, 3),        \* night, battery full
      Snapshot(-443, 559, 50, 0, FALSE, 14),   \* day, solar surplus
      Snapshot(500, 0, 96, 480, FALSE, 14),    \* day, grid import
      Snapshot(-443, 0, 96, 480, FALSE, 14) }  \* day, export without solar

\* regulate has not been called on its own
NoArgs == [state |-> Snapshot(0, 0, 0, 0, FALSE, 0), current_mode |-> AUTO,
           config |-> reg_config]

\* a coordinator whose cooldown has already run out when it is constructed
InitCooldownOver ==
    /\ now = 0
    /\ current_mode = AUTO
    /\ last_commanded_power = 0
    /\ last_mode_change_time = 0 - MIN_MODE_CHANGE_SECONDS
    /\ tasks = {}
    /\ tick_pc = "idle"
    /\ tick_call = 0
    /\ tick_called_at = 0
    /\ decision = NoDecision
    /\ data = NoDecision
    /\ tick_error = FALSE
    /\ actuator_power = 0
    /\ accepted = FALSE
    /\ mode_changed_at = -1
    /\ args = NoArgs
    /\ result = NoDecision

Init ==
    /\ now = 0
    /\ current_mode = AUTO
    /\ last_commanded_power = 0
    /\ last_mode_change_time = 0
    /\ tasks = {}
    /\ tick_pc = "idle"
    /\ tick_call = 0
    /\ tick_called_at = 0
    /\ decision = NoDecision
    /\ data = NoDecision
    /\ tick_error = FALSE
    /\ actuator_power = 0
    /\ accepted = FALSE
    /\ mode_changed_at = -1
    /\ args = NoArgs
    /\ result = NoDecision

(* ---------------------------------------------------------------------- *)
(* coordinator.py: the retry task                                          *)
(* ---------------------------------------------------------------------- *)
\* not self._retry_task.done()
Alive(t) == t.st \in {"sleeping", "sending"}

\* a task that has just been created: it runs to its first asyncio.sleep
NewRetryTask ==
    [ref |-> TRUE, st |-> "sleeping", attempt |-> 1, slept_at |-> now,
     sends |-> 0, waited |-> 0, call |-> 0,
     origin |-> last_commanded_power, stale |-> FALSE]

\* a _cancel_retry that cancels nothing
cancel_retry_nothing(ts) == ts

\* a _cancel_retry that lets an attempt in flight run on
cancel_retry_sleeping_only(ts) == {t \in ts : ~(t.ref /\ t.st = "sleeping")}

\* a _cancel_retry that drops the reference without cancelling the task
cancel_retry_forgets(ts) ==
    {IF t.ref /\ Alive(t) THEN [t EXCEPT !.ref = FALSE] ELSE t : t \in ts}

\* _cancel_retry: a referenced unfinished task is cancelled (it ends at once,
\* CancelledError is not an Exception) and the reference is dropped
cancel_retry(ts) == {t \in ts : ~(t.ref /\ Alive(t))}

\* _schedule_retry: the new task replaces the reference; a finished task that
\* is no longer referenced is gone
schedule_retry(ts) ==
    {[t EXCEPT !.ref = FALSE] : t \in {u \in cancel_retry(ts) : Alive(u)}}
        \cup {NewRetryTask}

\* bookkeeping at a commit: a retry task that is still running after the
\* commit's _cancel_retry belongs to a superseded command
MarkStale(ts) == {IF Alive(t) THEN [t EXCEPT !.stale = TRUE] ELSE t : t \in ts}

\* a command sent with the sign convention reversed
CommandPowerNegated == 0 - last_commanded_power

\* _send_command: the argument of set_power
CommandPower == last_commanded_power

\* asyncio.sleep(RETRY_DELAY_SECONDS): the instant the sleep ends
SleepDeadline(t) == t.slept_at + RETRY_DELAY_SECONDS

\* the task t of the event loop becomes the tasks of new
Replace(t, new) == (tasks \ {t}) \cup new

\* a task that finished stays visible only through self._retry_task
Finished(t, st) ==
    IF t.ref THEN {[t EXCEPT !.st = st, !.slept_at = 0]} ELSE {}

\* a retry loop with one iteration too many
MoreAttemptsInclusive(t) == t.attempt <= RETRY_MAX_ATTEMPTS

\* a retry loop that never gives up
MoreAttemptsAlways(t) == TRUE

\* for attempt in range(1, RETRY_MAX_ATTEMPTS + 1): another iteration follows
MoreAttempts(t) == t.attempt < RETRY_MAX_ATTEMPTS

\* _retry_loop: the sleep of an attempt is over, set_power is called
RetryWake(t) ==
    /\ t.st = "sleeping"
    /\ now >= SleepDeadline(t)
    /\ tasks' = Replace(t, {[t EXCEPT !.st = "sending",
                                      !.sends = t.sends + 1,
                                      !.waited = now - t.slept_at,
                                      !.call = CommandPower]})
    /\ UNCHANGED <<args, result,
                   now, current_mode, last_commanded_power, last_mode_change_time,
                   tick_pc, tick_call, tick_called_at, decision, data, tick_error,
                   actuator_power, accepted, mode_changed_at>>

\* _retry_loop: set_power returned, the loop returns
RetrySendOk(t) ==
    /\ t.st = "sending"
    /\ actuator_power' = t.call
    /\ accepted' = TRUE
    /\ tasks' = Replace(t, Finished(t, "succeeded"))
    /\ UNCHANGED <<args, result,
                   now, current_mode, last_commanded_power, last_mode_change_time,
                   tick_pc, tick_call, tick_called_at, decision, data, tick_error,
                   mode_changed_at>>

\* _retry_loop: set_power raised; next iteration, or all retries exhausted
RetrySendFail(t) ==
    /\ t.st = "sending"
    /\ tasks' = Replace(t,
                  IF MoreAttempts(t)
                  THEN {[t EXCEPT !.st = "sleeping", !.attempt = t.attempt + 1,
                                  !.slept_at = now]}
                  ELSE Finished(t, "exhausted"))
    /\ UNCHANGED <<args, result,
                   now, current_mode, last_commanded_power, last_mode_change_time,
                   tick_pc, tick_call, tick_called_at, decision, data, tick_error,
                   actuator_power, accepted, mode_changed_at>>

(* ---------------------------------------------------------------------- *)
(* coordinator.py: _async_update_data                                      *)
(* ---------------------------------------------------------------------- *)
\* the cooldown test with the boundary on the wrong side
InCooldownInclusive(elapsed) == elapsed <= MIN_MODE_CHANGE_SECONDS

\* if elapsed < MIN_MODE_CHANGE_SECONDS
InCooldown(elapsed) == elapsed < MIN_MODE_CHANGE_SECONDS

\* a commit that forgets to restart the cooldown
ModeChangeStampKept == last_mode_change_time

\* self._last_mode_change_time = now
ModeChangeStamp == now

\* a suppressed tick that returns the decision it suppressed
CooldownDecisionTarget(d) == d

\* the Decision returned by a suppressed tick
CooldownDecision(d) ==
    [mode |-> current_mode, power |-> last_commanded_power,
     reason |-> [cooldown |-> TRUE, rule |-> d.reason.rule]]

\* a suppressed tick that restarts the cooldown
TickSuppressedRestartsCooldown(s) ==
    LET d == regulate(s, current_mode, reg_config) IN
    /\ tick_pc = "idle"
    /\ d.mode # current_mode
    /\ InCooldown(now - last_mode_change_time)
    /\ data' = CooldownDecision(d)
    /\ tick_error' = FALSE
    /\ last_mode_change_time' = now
    /\ UNCHANGED <<args, result,
                   now, current_mode, last_commanded_power,
                   tasks, tick_pc, tick_call, tick_called_at, decision,
                   actuator_power, accepted, mode_changed_at>>

\* mode change requested during the cooldown: nothing but the return value
TickSuppressed(s) ==
    LET d == regulate(s, current_mode, reg_config) IN
    /\ tick_pc = "idle"
    /\ d.mode # current_mode
    /\ InCooldown(now - last_mode_change_time)
    /\ data' = CooldownDecision(d)
    /\ tick_error' = FALSE
    /\ UNCHANGED <<args, result,
                   now, current_mode, last_commanded_power, last_mode_change_time,
                   tasks, tick_pc, tick_call, tick_called_at, decision,
                   actuator_power, accepted, mode_changed_at>>

\* a commit of a mode change that leaves the commanded power as it was
TickModeChangeKeepsPower(s) ==
    LET d == regulate(s, current_mode, reg_config) IN
    /\ tick_pc = "idle"
    /\ d.mode # current_mode
    /\ ~InCooldown(now - last_mode_change_time)
    /\ current_mode' = d.mode
    /\ last_commanded_power' = last_commanded_power
    /\ last_mode_change_time' = ModeChangeStamp
    /\ mode_changed_at' = now
    /\ tasks' = MarkStale(cancel_retry(tasks))
    /\ tick_pc' = "sending"
    /\ tick_call' = CommandPower'
    /\ tick_called_at' = now
    /\ decision' = d
    /\ UNCHANGED <<args, result,
                   now, data, tick_error, actuator_power, accepted>>

\* mode change committed: up to the await of set_power
TickModeChange(s) ==
    LET d == regulate(s, current_mode, reg_config) IN
    /\ tick_pc = "idle"
    /\ d.mode # current_mode
    /\ ~InCooldown(now - last_mode_change_time)
    /\ current_mode' = d.mode
    /\ last_commanded_power' = d.power
    /\ last_mode_change_time' = ModeChangeStamp
    /\ mode_changed_at' = now
    /\ tasks' = MarkStale(cancel_retry(tasks))
    /\ tick_pc' = "sending"
    /\ tick_call' = CommandPower'
    /\ tick_called_at' = now
    /\ decision' = d
    /\ UNCHANGED <<args, result,
                   now, data, tick_error, actuator_power, accepted>>

\* a power adjustment that is held back during the cooldown
TickPowerChangeInCooldown(s) ==
    LET d == regulate(s, current_mode, reg_config) IN
    /\ tick_pc = "idle"
    /\ d.mode = current_mode
    /\ d.power # last_commanded_power
    /\ IF InCooldown(now - last_mode_change_time)
       THEN /\ data' = CooldownDecision(d)
            /\ tick_error' = FALSE
            /\ UNCHANGED <<last_commanded_power, tasks, tick_pc, tick_call,
                           tick_called_at, decision>>
       ELSE /\ last_commanded_power' = d.power
            /\ tasks' = MarkStale(cancel_retry(tasks))
            /\ tick_pc' = "sending"
            /\ tick_call' = CommandPower'
            /\ tick_called_at' = now
            /\ decision' = d
            /\ UNCHANGED <<data, tick_error>>
    /\ UNCHANGED <<args, result,
                   now, current_mode, last_mode_change_time,
                   actuator_power, accepted, mode_changed_at>>

\* a power adjustment that restarts the cooldown
TickPowerChangeRestartsCooldown(s) ==
    LET d == regulate(s, current_mode, reg_config) IN
    /\ tick_pc = "idle"
    /\ d.mode = current_mode
    /\ d.power # last_commanded_power
    /\ last_commanded_power' = d.power
    /\ last_mode_change_time' = now
    /\ tasks' = MarkStale(cancel_retry(tasks))
    /\ tick_pc' = "sending"
    /\ tick_call' = CommandPower'
    /\ tick_called_at' = now
    /\ decision' = d
    /\ UNCHANGED <<args, result,
                   now, current_mode, data, tick_error,
                   actuator_power, accepted, mode_changed_at>>

\* power adjustment within the same mode: up to the await of set_power
TickPowerChange(s) ==
    LET d == regulate(s, current_mode, reg_config) IN
    /\ tick_pc = "idle"
    /\ d.mode = current_mode
    /\ d.power # last_commanded_power
    /\ last_commanded_power' = d.power
    /\ tasks' = MarkStale(cancel_retry(tasks))
    /\ tick_pc' = "sending"
    /\ tick_call' = CommandPower'
    /\ tick_called_at' = now
    /\ decision' = d
    /\ UNCHANGED <<args, result,
                   now, current_mode, last_mode_change_time, data, tick_error,
                   actuator_power, accepted, mode_changed_at>>

\* a tick without change that sends the command again
TickNoChangeResends(s) ==
    LET d == regulate(s, current_mode, reg_config) IN
    /\ tick_pc = "idle"
    /\ d.mode = current_mode
    /\ d.power = last_commanded_power
    /\ tasks' = MarkStale(cancel_retry(tasks))
    /\ tick_pc' = "sending"
    /\ tick_call' = CommandPower
    /\ tick_called_at' = now
    /\ decision' = d
    /\ UNCHANGED <<args, result,
                   now, current_mode, last_commanded_power, last_mode_change_time,
                   data, tick_error, actuator_power, accepted, mode_changed_at>>

\* neither mode nor power changed
TickNoChange(s) ==
    LET d == regulate(s, current_mode, reg_config) IN
    /\ tick_pc = "idle"
    /\ d.mode = current_mode
    /\ d.power = last_commanded_power
    /\ data' = d
    /\ tick_error' = FALSE
    /\ UNCHANGED <<args, result,
                   now, current_mode, last_commanded_power, last_mode_change_time,
                   tasks, tick_pc, tick_call, tick_called_at, decision,
                   actuator_power, accepted, mode_changed_at>>

\* _send_command_with_retry: set_power returned, the tick returns decision
TickSendOk ==
    /\ tick_pc = "sending"
    /\ actuator_power' = tick_call
    /\ accepted' = TRUE
    /\ tick_pc' = "idle"
    /\ data' = decision
    /\ tick_error' = FALSE
    /\ decision' = NoDecision
    /\ tick_call' = 0
    /\ tick_called_at' = 0
    /\ UNCHANGED <<args, result,
                   now, current_mode, last_commanded_power, last_mode_change_time,
                   tasks, mode_changed_at>>

\* a failure of set_power that escapes the tick
CommandFailedPropagates ==
    /\ tasks' = tasks
    /\ data' = data
    /\ tick_error' = TRUE

\* _send_command_with_retry: the except clause
CommandFailed ==
    /\ tasks' = schedule_retry(tasks)
    /\ data' = decision
    /\ tick_error' = FALSE

\* _send_command_with_retry: set_power raised
TickSendFail ==
    /\ tick_pc = "sending"
    /\ CommandFailed
    /\ tick_pc' = "idle"
    /\ decision' = NoDecision
    /\ tick_call' = 0
    /\ tick_called_at' = 0
    /\ UNCHANGED <<args, result,
                   now, current_mode, last_commanded_power, last_mode_change_time,
                   actuator_power, accepted, mode_changed_at>>

(* ---------------------------------------------------------------------- *)
(* The clock                                                               *)
(* ---------------------------------------------------------------------- *)
\* the instant a retry task called set_power
CalledAt(t) == t.slept_at + t.waited

\* One second passes.  A sleep that is over ends before the clock moves on.
AdvanceTime ==
    /\ now < MaxTime
    /\ now - last_mode_change_time < MaxElapsed
    /\ tick_pc = "sending" => now - tick_called_at < MaxCallSeconds
    /\ \A t \in tasks : t.st = "sending" => now - CalledAt(t) < MaxCallSeconds
    /\ \A t \in tasks : t.st = "sleeping" => now < SleepDeadline(t)
    /\ now' = now + 1
    /\ UNCHANGED <<args, result,
                   current_mode, last_commanded_power, last_mode_change_time, tasks,
                   tick_pc, tick_call, tick_called_at, decision, data, tick_error,
                   actuator_power, accepted, mode_changed_at>>

Next ==
    \/ \E s \in Snapshots : TickSuppressed(s)
    \/ \E s \in Snapshots : TickModeChange(s)
    \/ \E s \in Snapshots : TickPowerChange(s)
    \/ \E s \in Snapshots : TickNoChange(s)
    \/ TickSendOk
    \/ TickSendFail
    \/ \E t \in tasks : RetryWake(t)
    \/ \E t \in tasks : RetrySendOk(t)
    \/ \E t \in tasks : RetrySendFail(t)
    \/ AdvanceTime

Spec == Init /\ [][Next]_vars

\* The coordinator as Home Assistant schedules it: the clock advances, the
\* update interval keeps calling _async_update_data, and a call of set_power
\* returns or raises.
SpecFair ==
    /\ Init /\ [][Next]_vars
    /\ WF_vars(AdvanceTime)
    /\ WF_vars(\E s \in Snapshots : TickSuppressed(s) \/ TickModeChange(s)
                                      \/ TickPowerChange(s) \/ TickNoChange(s))
    /\ WF_vars(TickSendOk \/ TickSendFail)

(* ---------------------------------------------------------------------- *)
(* regulator.py: regulate called on its own                                *)
(* ---------------------------------------------------------------------- *)
\* a Config within the ranges of the options form, with low rates and a low
\* surplus threshold
small_config ==
    [battery_capacity_wh |-> DEFAULT_BATTERY_CAPACITY_WH,
     base_load_w |-> DEFAULT_BASE_LOAD_W,
     off_peak_charge_rate |-> 1000,
     max_charge_rate |-> 800,
     max_discharge_rate |-> 400,
     surplus_threshold |-> 50,
     surplus_soc_max |-> DEFAULT_SURPLUS_SOC_MAX,
     discharge_min_power |-> DEFAULT_DISCHARGE_MIN_POWER]

Configs == {reg_config, small_config}

\* the values of the fields of State the calls are made with; they sit on
\* both sides of every comparison of regulate
GridPowers == {-3000, -443, -101, -100, -51, -50, 20, 21, 500}
SolarProductions == {100, 101}
BatterySocs == {10, 11, 62, 63, 79, 80, 94, 95}
BatteryPowers == {8, 49, 50, 480, 3000}
Hours == {1, 2, 5, 6, 14, 21}

States ==
    { Snapshot(grid, solar, soc, power_abs, off_peak, hour) :
        grid \in GridPowers, solar \in SolarProductions, soc \in BatterySocs,
        power_abs \in BatteryPowers, off_peak \in BOOLEAN, hour \in Hours }

RegulateArgs == [state : States, current_mode : Mode, config : Configs]

InitRegulate ==
    /\ now = 0
    /\ current_mode = AUTO
    /\ last_commanded_power = 0
    /\ last_mode_change_time = 0
    /\ tasks = {}
    /\ tick_pc = "idle"
    /\ tick_call = 0
    /\ tick_called_at = 0
    /\ decision = NoDecision
    /\ data = NoDecision
    /\ tick_error = FALSE
    /\ actuator_power = 0
    /\ accepted = FALSE
    /\ mode_changed_at = -1
    /\ args \in RegulateArgs
    /\ result = NoDecision

\* decision = regulate(state, self._current_mode, self._reg_config)
CallRegulate ==
    /\ result = NoDecision
    /\ result' = regulate(args.state, args.current_mode, args.config)
    /\ UNCHANGED <<now, current_mode, last_commanded_power, last_mode_change_time,
                   tasks, tick_pc, tick_call, tick_called_at, decision, data,
                   tick_error, actuator_power, accepted, mode_changed_at, args>>

NextRegulate == CallRegulate

SpecRegulate == InitRegulate /\ [][NextRegulate]_vars

(* ---------------------------------------------------------------------- *)
(* regulator.py: compute_target_soc and compute_reserve_soc on their own   *)
(* ---------------------------------------------------------------------- *)
\* the coordinator as constructed, left alone while a function is called
Constructed ==
    /\ now = 0
    /\ current_mode = AUTO
    /\ last_commanded_power = 0
    /\ last_mode_change_time = 0
    /\ tasks = {}
    /\ tick_pc = "idle"
    /\ tick_call = 0
    /\ tick_called_at = 0
    /\ decision = NoDecision
    /\ data = NoDecision
    /\ tick_error = FALSE
    /\ actuator_power = 0
    /\ accepted = FALSE
    /\ mode_changed_at = -1

coordinator_vars ==
    <<now, current_mode, last_commanded_power, last_mode_change_time, tasks,
      tick_pc, tick_call, tick_called_at, decision, data, tick_error,
      actuator_power, accepted, mode_changed_at>>

\* the function has not returned yet (it returns a percentage)
NoValue == -1

\* tempo_color: the three colours, None ("None") and an unknown colour
TempoColors == {"Rouge", "Blanc", "Bleu", "None", "Vert"}

TargetSocArgs ==
    [tempo_color : TempoColors, solar_forecast_kwh : 0..MaxForecast10]

InitTargetSoc ==
    /\ Constructed
    /\ args \in TargetSocArgs
    /\ result = NoValue

\* target_soc = compute_target_soc(state.tempo_color, state.solar_forecast_kwh)
CallTargetSoc ==
    /\ result = NoValue
    /\ result' = compute_target_soc(args.tempo_color, args.solar_forecast_kwh)
    /\ UNCHANGED <<coordinator_vars, args>>

NextTargetSoc == CallTargetSoc

SpecTargetSoc == InitTargetSoc /\ [][NextTargetSoc]_vars

\* the values compute_reserve_soc is called with
DayHours == 0..23
Minutes == {0, 30, 59}
BaseLoads == {0, 400, 5000}
SolarRemainings == {0, 20, 37}
BatteryCapacities == {1000, 5120}

ReserveSocArgs ==
    [is_off_peak : BOOLEAN, hour : DayHours, minute : Minutes,
     base_load_w : BaseLoads, solar_remaining_kwh : SolarRemainings,
     battery_capacity_wh : BatteryCapacities]

InitReserveSoc ==
    /\ Constructed
    /\ args \in ReserveSocArgs
    /\ result = NoValue

\* reserve_soc = compute_reserve_soc(...)
CallReserveSoc ==
    /\ result = NoValue
    /\ result' = compute_reserve_soc(args.is_off_peak, args.hour, args.minute,
                                     args.base_load_w, args.solar_remaining_kwh,
                                     args.battery_capacity_wh)
    /\ UNCHANGED <<coordinator_vars, args>>

NextReserveSoc == CallReserveSoc

SpecReserveSoc == InitReserveSoc /\ [][NextReserveSoc]_vars

(* ---------------------------------------------------------------------- *)
(* coordinator.py: reading the sensors                                     *)
(* ---------------------------------------------------------------------- *)
\* hass.states.get(entity_id): no such entity
ABSENT == "absent"

\* self._config.get(CONF_TEMPO_COLOR_SENSOR): no tempo sensor configured
NOT_CONFIGURED == "not configured"

\* a Python float: a finite value in tenths, nan or inf
Float(kind, v10) == [kind |-> kind, v10 |-> v10]

\* float(state.state), on the strings the sensors report here: a decimal
\* numeral, "nan" and "inf" are accepted, any other string raises ValueError
ParseFloat(str) ==
    CASE str = "-443.7" -> Float("finite", -4437)
      [] str = "52"     -> Float("finite", 520)
      [] str = "3.7"    -> Float("finite", 37)
      [] str = "nan"    -> Float("nan", 0)
      [] str = "inf"    -> Float("inf", 0)
      [] OTHER          -> Float("ValueError", 0)

\* _get_sensor_float; default10 is the default in tenths
get_sensor_float(raw, default10) ==
    IF raw = ABSENT \/ raw \in {"unavailable", "unknown"}
    THEN Float("finite", default10)
    ELSE IF ParseFloat(raw).kind = "ValueError"
    THEN Float("finite", default10)
    ELSE ParseFloat(raw)

\* _get_sensor_int: int() of a nan raises ValueError, of an inf OverflowError,
\* and neither is caught
get_sensor_int(raw, default) ==
    LET f == get_sensor_float(raw, default * 10) IN
    IF f.kind = "finite"
    THEN [raised |-> FALSE, value |-> IntTrunc(f.v10, 10)]
    ELSE [raised |-> TRUE, value |-> 0]

\* _get_sensor_state; None is written "None"
get_sensor_state(raw) ==
    IF raw = ABSENT \/ raw \in {"unavailable", "unknown"} THEN "None" ELSE raw

\* the State built from defaults only
DefaultState ==
    [grid_power |-> 0, solar_production |-> 0, battery_soc |-> 0,
     battery_power_abs |-> 0, is_off_peak |-> FALSE, hour |-> 0, minute |-> 0,
     solar_forecast_kwh |-> Float("finite", 0),
     solar_remaining_kwh |-> Float("finite", 0), tempo_color |-> "None"]

\* _read_state on the sensor states in sensors, at 14:00 local time: the
\* State, or raised when a field's conversion raised
read_state(sensors) ==
    LET grid == get_sensor_int(sensors.grid_power, 0)
        solar == get_sensor_int(sensors.solar_production, 0)
        soc == get_sensor_int(sensors.battery_soc, 0)
        power == get_sensor_int(sensors.battery_power, 0)
    IN  IF grid.raised \/ solar.raised \/ soc.raised \/ power.raised
        THEN [called |-> TRUE, raised |-> TRUE, state |-> DefaultState]
        ELSE [called |-> TRUE, raised |-> FALSE,
              state |->
                [grid_power |-> grid.value, solar_production |-> solar.value,
                 battery_soc |-> soc.value, battery_power_abs |-> power.value,
                 is_off_peak |-> (get_sensor_state(sensors.hc_hp) = "on"),
                 hour |-> 14, minute |-> 0,
                 solar_forecast_kwh |-> get_sensor_float(sensors.solar_forecast, 0),
                 solar_remaining_kwh |-> get_sensor_float(sensors.solar_remaining, 0),
                 tempo_color |-> IF sensors.tempo_color = NOT_CONFIGURED THEN "None"
                                 ELSE get_sensor_state(sensors.tempo_color)]]

\* the states of a numeric sensor
NumericSensorStates ==
    {ABSENT, "unavailable", "unknown", "abc", "nan", "inf", "-443.7", "52"}

SensorStates ==
    [grid_power : NumericSensorStates,
     solar_production : {"52"},
     battery_soc : {"unknown", "52"},
     battery_power : NumericSensorStates,
     hc_hp : {ABSENT, "unavailable", "on", "off"},
     solar_forecast : NumericSensorStates,
     solar_remaining : {"abc", "3.7"},
     tempo_color : {NOT_CONFIGURED, ABSENT, "unknown", "Bleu"}]

\* _read_state has not been called
NotRead == [called |-> FALSE, raised |-> FALSE, state |-> DefaultState]

InitReadState ==
    /\ Constructed
    /\ args \in SensorStates
    /\ result = NotRead

\* state = self._read_state()
CallReadState ==
    /\ ~result.called
    /\ result' = read_state(args)
    /\ UNCHANGED <<coordinator_vars, args>>

NextReadState == CallReadState

SpecReadState == InitReadState /\ [][NextReadState]_vars

(* ---------------------------------------------------------------------- *)
(* Properties of the coordinator                                           *)
(* ---------------------------------------------------------------------- *)
\* the step is a tick that read the snapshot s
Tick(s) == TickSuppressed(s) \/ TickModeChange(s) \/ TickPowerChange(s) \/ TickNoChange(s)

\* C1: a tick whose decision has another mode than current_mode is
\* suppressed (mode and power kept, "cooldown" returned) when fewer than 60
\* seconds have passed since last_mode_change_time, and committed (mode and
\* power of the decision taken) when 60 seconds or more have passed.
C1_CooldownBoundary ==
    [][\A s \in Snapshots :
         LET d == regulate(s, current_mode, reg_config) IN
         (Tick(s) /\ d.mode # current_mode) =>
            IF now - last_mode_change_time < 60
            THEN /\ current_mode' = current_mode
                 /\ last_commanded_power' = last_commanded_power
                 /\ data'.reason.cooldown
            ELSE /\ current_mode' = d.mode
                 /\ last_commanded_power' = d.power
                 /\ tick_pc' = "sending"]_vars

\* a transition is being committed exactly 60 s after the previous mode
\* change time, after an earlier tick was suppressed
C1_Witness ==
    /\ tick_pc = "sending"
    /\ last_mode_change_time = MIN_MODE_CHANGE_SECONDS
    /\ now = last_mode_change_time
    /\ data.reason.cooldown

\* C2: two successive changes of current_mode are at least 60 seconds apart.
C2_MinimumDwell ==
    [][(current_mode' # current_mode /\ mode_changed_at # -1)
          => now' - mode_changed_at >= 60]_vars

\* the mode has left Auto and come back: the second change, at 120 s
C2_Witness ==
    /\ current_mode = AUTO
    /\ mode_changed_at = 2 * MIN_MODE_CHANGE_SECONDS

\* C3: a tick suppressed by the cooldown leaves current_mode,
\* last_commanded_power and last_mode_change_time unchanged, calls the
\* actuator not, and neither cancels nor starts a retry task.
C3_SuppressedFrame ==
    [][\A s \in Snapshots :
         TickSuppressed(s) =>
            /\ UNCHANGED <<current_mode, last_commanded_power, last_mode_change_time>>
            /\ UNCHANGED <<tick_pc, tick_call, actuator_power, accepted>>
            /\ UNCHANGED tasks]_vars

\* a tick was suppressed while a retry task was asleep
C3_Witness ==
    /\ data.reason.cooldown
    /\ tick_pc = "idle"
    /\ \E t \in tasks : t.st = "sleeping" /\ t.attempt = 2

\* the number of actuator calls in flight
InFlight ==
    Cardinality({t \in tasks : t.st = "sending"})
        + (IF tick_pc = "sending" THEN 1 ELSE 0)

\* C4: a tick that commits a mode transition or a power adjustment cancels a
\* pending retry task before it calls the actuator: while the tick's command
\* is in flight no retry task is alive, and no retry task ever outlives a
\* commit.
C4_CommitCancelsRetry ==
    /\ tick_pc = "sending" => \A t \in tasks : ~Alive(t)
    /\ \A t \in tasks : Alive(t) => ~t.stale

\* a commit is in flight whose _cancel_retry ended the retry task of an
\* earlier failed command (every finished command failed, yet no task is left)
C4_Witness ==
    /\ tick_pc = "sending"
    /\ tasks = {}
    /\ ~accepted
    /\ data.mode # AUTO

C6_BoundedRetry ==
    /\ [](\A t \in tasks :
            /\ t.sends <= 3
            /\ t.sends >= 1 => t.waited >= 5
            /\ t.st = "exhausted" => t.sends = 3
            /\ t.st = "succeeded" => t.sends = t.attempt)
    /\ [][\A t \in tasks :
            t.st = "succeeded" => \A u \in tasks' : u.sends > 0 => u = t]_vars

\* a retry task has failed three times and stopped
C6_Witness == \E t \in tasks : t.st = "exhausted" /\ t.sends = RETRY_MAX_ATTEMPTS

\* C7: when the actuator call of a committing tick fails, the tick does not
\* raise: it returns the decision of regulate and a retry task is scheduled.
C7_FailureNotPropagated ==
    /\ [](~tick_error)
    /\ [][TickSendFail =>
            /\ data' = decision
            /\ data'.mode = current_mode /\ data'.power = last_commanded_power
            /\ ~data'.reason.cooldown
            /\ \E t \in tasks' : t.ref /\ t.st = "sleeping" /\ t.sends = 0]_vars

\* the command of a commit has failed: the tick has returned its decision
\* and the retry task is asleep before its first attempt
C7_Witness ==
    /\ tick_pc = "idle"
    /\ ~tick_error
    /\ ~accepted
    /\ data.mode = DISCHARGE /\ ~data.reason.cooldown
    /\ \E t \in tasks : t.ref /\ t.st = "sleeping" /\ t.sends = 0

\* C8: whenever no command is in flight and no retry is pending,
\* last_commanded_power is the power of the last command the actuator
\* accepted (0 when it has accepted none).
C8_LastKnownGood ==
    (tick_pc = "idle" /\ \A t \in tasks : ~Alive(t))
        => last_commanded_power = actuator_power

\* the retry task has made all its attempts and the last one has failed
Exhausted(t) == t.sends >= RETRY_MAX_ATTEMPTS /\ t.st \notin {"sending", "succeeded"}

\* C9: once a retry task has exhausted its attempts, no retry is pending and
\* no actuator call is made until a tick commits: the task stays stopped, and
\* the only call that can follow is the one of a committing tick.
C9_ExhaustionIsTerminal ==
    /\ [](\A t \in tasks : Exhausted(t) => ~Alive(t))
    /\ [][(\E t \in tasks : Exhausted(t)) =>
            /\ \A u \in tasks' : u.st # "sending"
            /\ \A u \in tasks' : Alive(u) => tick_pc = "sending" /\ u.sends = 0]_vars

\* after an exhausted retry a later tick has committed and its command is
\* in flight
C9_Witness ==
    /\ \E t \in tasks : t.st = "exhausted"
    /\ tick_pc = "sending"

\* C10: every actuator call, of a tick or of a retry attempt, carries
\* last_commanded_power as it is when the call is made; in Auto mode that is 0.
C10_CommandCarriesCurrentPower ==
    [][/\ (tick_pc = "idle" /\ tick_pc' = "sending") =>
            /\ tick_call' = last_commanded_power'
            /\ current_mode' = AUTO => tick_call' = 0
       /\ \A t \in tasks' : (t.st = "sending" /\ t \notin tasks) =>
            /\ t.call = last_commanded_power'
            /\ current_mode' = AUTO => t.call = 0]_vars

\* a retry attempt is in flight with a non-zero power
C10_Witness ==
    \E t \in tasks : t.st = "sending" /\ t.call # 0 /\ t.call = last_commanded_power

\* C11: a power-only adjustment (the decision has the current mode and a
\* power other than last_commanded_power) is not subject to the cooldown:
\* whatever the elapsed time, the tick sets last_commanded_power to the new
\* power and issues exactly one actuator command with that power.
C11_PowerChangeNoCooldown ==
    [][\A s \in Snapshots :
         LET d == regulate(s, current_mode, reg_config) IN
         (Tick(s) /\ d.mode = current_mode /\ d.power # last_commanded_power) =>
            /\ last_commanded_power' = d.power
            /\ tick_pc' = "sending"
            /\ tick_call' = d.power
            /\ InFlight' = 1]_vars

\* the command of a power-only adjustment is in flight, fewer than 60 s
\* after the last mode change
C11_Witness ==
    /\ tick_pc = "sending"
    /\ current_mode # AUTO
    /\ tick_called_at > last_mode_change_time
    /\ tick_called_at - last_mode_change_time < MIN_MODE_CHANGE_SECONDS

\* C12: a tick sets last_mode_change_time to the current instant when it
\* commits a mode transition, and leaves it unchanged when it adjusts the
\* power only, changes nothing, or is suppressed.
C12_ChangeTimeTracksTransitions ==
    [][\A s \in Snapshots :
         Tick(s) =>
            IF current_mode' # current_mode
            THEN last_mode_change_time' = now
            ELSE last_mode_change_time' = last_mode_change_time]_vars

\* a power-only adjustment is in flight 5 s after the transition committed
\* at 60 s, and last_mode_change_time is still 60
C12_Witness ==
    /\ tick_pc = "sending"
    /\ last_mode_change_time = MIN_MODE_CHANGE_SECONDS
    /\ mode_changed_at = last_mode_change_time
    /\ tick_called_at = last_mode_change_time + 5

\* C13: a tick whose decision has the current mode and a power equal to
\* last_commanded_power calls the actuator not and changes none of
\* current_mode, last_commanded_power, last_mode_change_time and the retry task.
C13_NoChangeFrame ==
    [][\A s \in Snapshots :
         LET d == regulate(s, current_mode, reg_config) IN
         (Tick(s) /\ d.mode = current_mode /\ d.power = last_commanded_power) =>
            /\ UNCHANGED <<current_mode, last_commanded_power, last_mode_change_time>>
            /\ UNCHANGED <<tasks, tick_pc, tick_call, actuator_power, accepted>>]_vars

\* a tick has returned "No change" and the mode has never changed
C13_Witness ==
    /\ mode_changed_at = -1
    /\ args = NoArgs
    /\ result = NoDecision
    /\ data.reason.rule = 8
    /\ ~data.reason.cooldown
    /\ tick_pc = "idle"

\* C14: in every reachable state current_mode = Auto implies
\* last_commanded_power = 0.
C14_AutoMeansZeroPower == current_mode = AUTO => last_commanded_power = 0

\* the coordinator has come back to Auto and the actuator has accepted the
\* command of that transition
C14_Witness ==
    /\ current_mode = AUTO
    /\ mode_changed_at # -1
    /\ accepted
    /\ actuator_power = 0
    /\ tick_pc = "idle"

(* ---------------------------------------------------------------------- *)
(* Properties of regulate                                                  *)
(* ---------------------------------------------------------------------- *)
\* regulate has returned
Returned == result.reason.rule # 0

\* the conditions of rule 1 hold for the arguments of the call
OffPeakChargeDue ==
    /\ args.state.is_off_peak
    /\ 2 <= args.state.hour /\ args.state.hour < 6
    /\ args.state.battery_soc
         < compute_target_soc(args.state.tempo_color, args.state.solar_forecast_kwh)

\* the conditions of rule 3 hold for the arguments of the call
SurplusDue ==
    /\ args.state.grid_power < -args.config.surplus_threshold
    /\ args.state.solar_production > args.config.surplus_threshold
    /\ args.state.battery_soc < args.config.surplus_soc_max

\* C15: whenever is_off_peak holds, hour is in [2, 6) and battery_soc is
\* below target_soc, regulate returns ChargeOffPeak with power
\* -off_peak_charge_rate, whatever the current mode and the other inputs,
\* also when the surplus conditions of rule 3 hold at the same time.
C15_OffPeakChargeFirst ==
    (Returned /\ OffPeakChargeDue) =>
        /\ result.mode = CHARGE_OFF_PEAK
        /\ result.power = -args.config.off_peak_charge_rate

\* the off-peak rule has won over the surplus rule, from surplus charging
C15_Witness ==
    /\ Returned /\ OffPeakChargeDue /\ SurplusDue
    /\ args.current_mode = CHARGE_SURPLUS
    /\ result.mode = CHARGE_OFF_PEAK

\* the conditions of rule 2 hold for the arguments of the call
OffPeakChargeComplete ==
    /\ args.current_mode = CHARGE_OFF_PEAK
    /\ args.state.is_off_peak
    /\ args.state.battery_soc
         >= compute_target_soc(args.state.tempo_color, args.state.solar_forecast_kwh)

\* grid_power + bat_signed + 100 limited to
\* [-max_charge_rate, -min(100, surplus_threshold)]
SurplusPowerExpected ==
    LET bat_signed ==
            IF args.current_mode \in {CHARGE_SURPLUS, CHARGE_OFF_PEAK}
            THEN 0 - args.state.battery_power_abs
            ELSE IF args.current_mode = DISCHARGE THEN args.state.battery_power_abs
            ELSE 0
        raw == args.state.grid_power + bat_signed + 100
        lowest == 0 - args.config.max_charge_rate
        highest == IF args.config.surplus_threshold < 100
                   THEN 0 - args.config.surplus_threshold ELSE -100
    IN  IF raw < lowest THEN lowest ELSE IF raw > highest THEN highest ELSE raw

\* C16: when rules 1 and 2 do not match and the surplus conditions hold,
\* regulate returns ChargeSurplus with power
\* clamp(grid_power + bat_signed + 100, -max_charge_rate,
\* -min(100, surplus_threshold)), bat_signed being -battery_power_abs in a
\* charging mode, +battery_power_abs in Discharge and 0 in Auto; for
\* grid = -443 and power_abs = 8 this is -351 from ChargeSurplus and -343
\* from Auto.
C16_SurplusPower ==
    (Returned /\ ~OffPeakChargeDue /\ ~OffPeakChargeComplete /\ SurplusDue) =>
        /\ result.mode = CHARGE_SURPLUS
        /\ result.power = SurplusPowerExpected
        /\ (args.state.grid_power = -443 /\ args.state.battery_power_abs = 8) =>
              /\ args.current_mode = CHARGE_SURPLUS => result.power = -351
              /\ args.current_mode = AUTO => result.power = -343

\* the surplus power of the example, computed while surplus charging
C16_Witness ==
    /\ Returned /\ ~OffPeakChargeDue /\ SurplusDue
    /\ args.current_mode = CHARGE_SURPLUS
    /\ args.state.grid_power = -443 /\ args.state.battery_power_abs = 8
    /\ result.mode = CHARGE_SURPLUS /\ result.power = -351

\* C17: for every snapshot with battery_soc >= surplus_soc_max and every
\* current mode, ChargeSurplus included, regulate does not return
\* ChargeSurplus.
C17_NoSurplusChargeAtMaxSoc ==
    (Returned /\ args.state.battery_soc >= args.config.surplus_soc_max) =>
        result.mode # CHARGE_SURPLUS

\* the reserve SOC of the arguments of the call
ReserveSoc ==
    compute_reserve_soc(args.state.is_off_peak, args.state.hour, args.state.minute,
                        args.config.base_load_w, args.state.solar_remaining_kwh,
                        args.config.battery_capacity_wh)

\* C18: for every snapshot and every current mode, regulate never returns
\* Discharge when is_off_peak is true, or when battery_soc <= reserve_soc, or
\* when battery_power_abs < discharge_min_power.
C18_NoDischargeWhenStopped ==
    (Returned /\ (\/ args.state.is_off_peak
                  \/ args.state.battery_soc <= ReserveSoc
                  \/ args.state.battery_power_abs < args.config.discharge_min_power)) =>
        result.mode # DISCHARGE

\* a discharge in progress has been stopped at the reserve
C18_Witness ==
    /\ Returned /\ args.current_mode = DISCHARGE
    /\ ~args.state.is_off_peak
    /\ args.state.battery_soc = ReserveSoc
    /\ args.state.battery_power_abs >= args.config.discharge_min_power
    /\ result.mode = AUTO /\ result.power = 0

\* clamp(grid_power + bat_signed - 20, 0, max_discharge_rate)
DischargeCandidate ==
    clamp(args.state.grid_power
            + signed_battery_power(args.current_mode, args.state.battery_power_abs)
            - 20,
          0, args.config.max_discharge_rate)

\* C19: for every snapshot and every current mode, when the discharge
\* candidate power is below discharge_min_power, regulate does not return
\* Discharge.
C19_LowPowerDischargeRejected ==
    (Returned /\ DischargeCandidate < args.config.discharge_min_power) =>
        result.mode # DISCHARGE

\* C20: every decision with mode Discharge returned by regulate has
\* discharge_min_power <= power <= max_discharge_rate.
C20_DischargePowerRange ==
    (Returned /\ result.mode = DISCHARGE) =>
        /\ args.config.discharge_min_power <= result.power
        /\ result.power <= args.config.max_discharge_rate

\* C21: every decision with mode ChargeSurplus returned by regulate has
\* -max_charge_rate <= power <= -min(100, surplus_threshold).
C21_SurplusPowerRange ==
    (Returned /\ result.mode = CHARGE_SURPLUS) =>
        /\ 0 - args.config.max_charge_rate <= result.power
        /\ result.power <= 0 - Min(100, args.config.surplus_threshold)

\* the target SOC of the arguments of the call
TargetSoc == compute_target_soc(args.state.tempo_color, args.state.solar_forecast_kwh)

\* C22: regulate returns ChargeOffPeak only if is_off_peak is true and
\* battery_soc < target_soc; from ChargeOffPeak it does not return
\* ChargeOffPeak once the target is reached or the off-peak flag is false.
C22_OffPeakChargeOnlyWhenDue ==
    Returned =>
        /\ result.mode = CHARGE_OFF_PEAK =>
              args.state.is_off_peak /\ args.state.battery_soc < TargetSoc
        /\ (/\ args.current_mode = CHARGE_OFF_PEAK
            /\ (args.state.battery_soc >= TargetSoc \/ ~args.state.is_off_peak)) =>
              result.mode # CHARGE_OFF_PEAK

\* an off-peak charge in progress has been stopped because peak started,
\* with the battery still below the target
C22_Witness ==
    /\ Returned /\ args.current_mode = CHARGE_OFF_PEAK
    /\ ~args.state.is_off_peak /\ args.state.battery_soc < TargetSoc
    /\ result.mode = AUTO /\ result.reason.rule = 7

\* C23: for every snapshot with hour < 2 or hour >= 6 and every current mode,
\* regulate does not return ChargeOffPeak.
C23_OffPeakChargeInWindow ==
    (Returned /\ (args.state.hour < 2 \/ args.state.hour >= 6)) =>
        result.mode # CHARGE_OFF_PEAK

\* C25: every decision returned by regulate is sign-consistent with its
\* mode: power = 0 in Auto, power <= 0 in ChargeSurplus and ChargeOffPeak,
\* power >= 0 in Discharge.
C25_PowerSignMatchesMode ==
    Returned =>
        /\ result.mode = AUTO => result.power = 0
        /\ result.mode \in {CHARGE_SURPLUS, CHARGE_OFF_PEAK} => result.power <= 0
        /\ result.mode = DISCHARGE => result.power >= 0

\* a surplus charge computed while the battery was discharging more than
\* the grid exported
C25_Witness ==
    /\ Returned /\ args.current_mode = DISCHARGE
    /\ args.state.grid_power + args.state.battery_power_abs + 100 > 0
    /\ result.mode = CHARGE_SURPLUS /\ result.power < 0

(* ---------------------------------------------------------------------- *)
(* Properties of the coordinator, continued                                *)
(* ---------------------------------------------------------------------- *)
\* C24: when the decision of regulate comes from rule 8 (no change), the
\* tick issues no actuator command and leaves last_commanded_power
\* unchanged.
C24_NoChangeIsNotACommand ==
    [][\A s \in Snapshots :
         (Tick(s) /\ regulate(s, current_mode, reg_config).reason.rule = 8) =>
            /\ last_commanded_power' = last_commanded_power
            /\ tick_pc' = "idle"]_vars

\* C29: the Decision returned by a cooldown-suppressed tick has mode
\* current_mode and power last_commanded_power, and its reason is the
\* suppressed decision's reason tagged as cooldown.
C29_SuppressedDecisionIsActualState ==
    [][\A s \in Snapshots :
         LET d == regulate(s, current_mode, reg_config) IN
         (/\ Tick(s)
          /\ d.mode # current_mode
          /\ now - last_mode_change_time < MIN_MODE_CHANGE_SECONDS) =>
            /\ data'.mode = current_mode /\ data'.mode = current_mode'
            /\ data'.power = last_commanded_power
            /\ data'.power = last_commanded_power'
            /\ data'.reason = [cooldown |-> TRUE, rule |-> d.reason.rule]]_vars

\* a tick in surplus charging has returned its own state while the stop of
\* the surplus charge (rule 5) was suppressed
C29_Witness ==
    /\ tick_pc = "idle"
    /\ current_mode = CHARGE_SURPLUS /\ last_commanded_power # 0
    /\ data.mode = CHARGE_SURPLUS /\ data.power = last_commanded_power
    /\ data.reason = [cooldown |-> TRUE, rule |-> 5]

\* the retry tasks that have not finished
AliveTasks == {t \in tasks : Alive(t)}

\* C30: in every reachable state at most one retry sequence is alive.
C30_OneRetrySequence == Cardinality(AliveTasks) <= 1

\* the retry task of a later command is the only one alive, the command
\* before it having failed and got a retry task as well
C30_Witness ==
    /\ Cardinality(AliveTasks) = 1
    /\ \E t \in AliveTasks : t.ref /\ t.origin = -480 /\ current_mode = CHARGE_SURPLUS
    /\ ~accepted

(* ---------------------------------------------------------------------- *)
(* Properties of compute_target_soc and compute_reserve_soc                *)
(* ---------------------------------------------------------------------- *)
\* the lower limit of the target SOC of a tariff tier
TierMinimum(tempo_color) == IF tempo_color \in {"Rouge", "Blanc"} THEN 60 ELSE 20

\* C26: for each tariff tier compute_target_soc is non-increasing in the
\* forecast, never below the tier's minimum (60 for Rouge and Blanc, 20 for
\* Bleu and for no or an unknown colour) and within 0..100; Rouge and Blanc
\* give the same result.
C26_TargetSocMonotoneFloored ==
    result # NoValue =>
        /\ result >= TierMinimum(args.tempo_color)
        /\ 0 <= result /\ result <= 100
        /\ \A smaller \in 0..args.solar_forecast_kwh :
              compute_target_soc(args.tempo_color, smaller) >= result
        /\ args.tempo_color \in {"Rouge", "Blanc"} =>
              /\ compute_target_soc("Rouge", args.solar_forecast_kwh) = result
              /\ compute_target_soc("Blanc", args.solar_forecast_kwh) = result

\* a forecast large enough for the minimum of the Blanc tier to apply
C26_Witness ==
    /\ args.tempo_color = "Blanc" /\ args.solar_forecast_kwh > 200
    /\ result = 60

\* C27: compute_reserve_soc returns exactly 10 whenever is_off_peak is true,
\* and whenever is_off_peak is false and the time is 22:00 or later.
C27_ReserveTenOffPeakOrLate ==
    result # NoValue =>
        /\ args.is_off_peak => result = 10
        /\ (~args.is_off_peak /\ args.hour >= 22) => result = 10

\* the reserve at 22:30 in peak hours, with a load that would need more than
\* the floor earlier in the day
C27_Witness ==
    /\ ~args.is_off_peak /\ args.hour = 22 /\ args.minute = 30
    /\ args.base_load_w = 5000 /\ args.solar_remaining_kwh = 0
    /\ result = 10

\* C28: compute_reserve_soc always returns an integer in 10..100.
C28_ReserveInRange ==
    result # NoValue => (10 <= result /\ result <= 100)

\* the energy the battery has to deliver until 22:00 is at most its capacity
\* (both in Wh * 60)
ReserveWithinCapacity ==
    LET minutes_to_off_peak ==
            IF 22 * 60 > args.hour * 60 + args.minute
            THEN 22 * 60 - (args.hour * 60 + args.minute) ELSE 0
    IN  minutes_to_off_peak * args.base_load_w - args.solar_remaining_kwh * 6000
            <= 60 * args.battery_capacity_wh

\* C28 as amended: compute_reserve_soc always returns an integer >= 10; it is
\* at most 100 when the energy needed from the battery until 22:00 does not
\* exceed the capacity, and is not limited to 100 otherwise (109 at 08:00
\* with 400 W, no remaining solar and 5120 Wh).
C28_ReserveAtLeastTen ==
    result # NoValue =>
        /\ result >= 10
        /\ (args.is_off_peak \/ ReserveWithinCapacity) => result <= 100
        /\ (/\ ~args.is_off_peak /\ args.hour = 8 /\ args.minute = 0
            /\ args.base_load_w = 400 /\ args.solar_remaining_kwh = 0
            /\ args.battery_capacity_wh = 5120) => result = 109

\* the reserve of 08:00 in peak hours
C28_Witness ==
    /\ ~args.is_off_peak /\ args.hour = 8 /\ args.minute = 0
    /\ args.base_load_w = 400 /\ args.solar_remaining_kwh = 0
    /\ args.battery_capacity_wh = 5120
    /\ result = 109

(* ---------------------------------------------------------------------- *)
(* Properties of regulate, continued                                       *)
(* ---------------------------------------------------------------------- *)
\* C31: called with current_mode = ChargeSurplus, regulate never returns
\* Discharge; when in addition grid_power >= -50 and none of rules 1-3
\* match, it returns Auto with power 0.
C31_SurplusStopsBeforeDischarge ==
    (Returned /\ args.current_mode = CHARGE_SURPLUS) =>
        /\ result.mode # DISCHARGE
        /\ (/\ args.state.grid_power >= -50
            /\ ~OffPeakChargeDue /\ ~OffPeakChargeComplete /\ ~SurplusDue) =>
              (result.mode = AUTO /\ result.power = 0)

\* a surplus charge stopped at a small export, in peak hours with the
\* battery above the reserve
C31_Witness ==
    /\ Returned /\ args.current_mode = CHARGE_SURPLUS
    /\ args.state.grid_power = 20
    /\ ~args.state.is_off_peak /\ args.state.battery_soc > ReserveSoc
    /\ args.state.battery_power_abs >= args.config.discharge_min_power
    /\ result.mode = AUTO /\ result.power = 0

\* the conditions of rule 4 hold for the arguments of the call
PeakDischargeDue ==
    /\ ~args.state.is_off_peak
    /\ args.state.battery_soc > ReserveSoc
    /\ args.current_mode # CHARGE_SURPLUS
    /\ (args.state.grid_power > 20 \/ args.current_mode = DISCHARGE)
    /\ args.state.battery_power_abs >= args.config.discharge_min_power
    /\ DischargeCandidate >= args.config.discharge_min_power

\* the conditions of one of the stop rules 5, 6, 7 hold
StopDue ==
    \/ args.current_mode = CHARGE_SURPLUS /\ args.state.grid_power >= -50
    \/ /\ args.current_mode = DISCHARGE
       /\ \/ args.state.is_off_peak
          \/ args.state.battery_soc <= ReserveSoc
          \/ args.state.battery_power_abs < args.config.discharge_min_power
    \/ args.current_mode = CHARGE_OFF_PEAK /\ ~args.state.is_off_peak

\* C32: when none of rules 1-7 match, regulate returns the current mode
\* unchanged with power signed_battery_power(current_mode,
\* battery_power_abs): 0 in Auto, -battery_power_abs in ChargeSurplus or
\* ChargeOffPeak, +battery_power_abs in Discharge.
C32_NoChangeReportsSignedPower ==
    (/\ Returned
     /\ ~OffPeakChargeDue /\ ~OffPeakChargeComplete /\ ~SurplusDue
     /\ ~PeakDischargeDue /\ ~StopDue) =>
        /\ result.mode = args.current_mode
        /\ result.power
             = signed_battery_power(args.current_mode, args.state.battery_power_abs)
        /\ args.current_mode = AUTO => result.power = 0
        /\ args.current_mode \in {CHARGE_SURPLUS, CHARGE_OFF_PEAK} =>
              result.power = 0 - args.state.battery_power_abs
        /\ args.current_mode = DISCHARGE =>
              result.power = args.state.battery_power_abs

\* an off-peak charge that goes on, reported at the measured power
C32_Witness ==
    /\ Returned /\ args.current_mode = CHARGE_OFF_PEAK
    /\ ~OffPeakChargeDue /\ ~OffPeakChargeComplete /\ ~SurplusDue
    /\ ~PeakDischargeDue /\ ~StopDue
    /\ args.state.battery_power_abs = 480
    /\ result.mode = CHARGE_OFF_PEAK /\ result.power = -480

(* ---------------------------------------------------------------------- *)
(* Properties of the coordinator: stop rules, cooldown, retries, sensors   *)
(* ---------------------------------------------------------------------- *)
\* C33: after every tick whose snapshot has is_off_peak = true,
\* current_mode is not Discharge, and after every tick whose snapshot has
\* is_off_peak = false, current_mode is not ChargeOffPeak.
C33_StopRulesTakeEffect ==
    [][\A s \in Snapshots :
         Tick(s) =>
            /\ s.is_off_peak => current_mode' # DISCHARGE
            /\ ~s.is_off_peak => current_mode' # CHARGE_OFF_PEAK]_vars

\* C33 as amended: the same after every tick whose mode change is not
\* suppressed by the cooldown (a tick that asks for another mode less than
\* 60 seconds after the last mode change leaves the mode as it was).
C33_StopRulesTakeEffectUnlessSuppressed ==
    [][\A s \in Snapshots :
         (/\ Tick(s)
          /\ ~(/\ regulate(s, current_mode, reg_config).mode # current_mode
               /\ now - last_mode_change_time < 60)) =>
            /\ s.is_off_peak => current_mode' # DISCHARGE
            /\ ~s.is_off_peak => current_mode' # CHARGE_OFF_PEAK]_vars

\* a discharge has been stopped by a tick that saw off-peak hours with the
\* battery above the target (rule 6), the cooldown being over
C33_Witness ==
    /\ tick_pc = "idle" /\ current_mode = AUTO
    /\ mode_changed_at >= 2 * MIN_MODE_CHANGE_SECONDS
    /\ data.mode = AUTO /\ data.reason = [cooldown |-> FALSE, rule |-> 6]

\* every tick of this step asks for the mode M
TicksRequest(M) ==
    \A s \in Snapshots : Tick(s) => regulate(s, current_mode, reg_config).mode = M

\* C34: if from some tick on regulate keeps returning the same mode M and
\* the 60 seconds since the last mode change keep elapsing, the coordinator
\* eventually commits M and stays in it; the commit happens at the first
\* tick that finds 60 seconds elapsed.
C34_PersistentRequestCommitted ==
    /\ \A M \in Mode :
          (/\ <>[][TicksRequest(M)]_vars
           /\ []<>(now - last_mode_change_time >= MIN_MODE_CHANGE_SECONDS))
              => <>[](current_mode = M)
    /\ [][\A s \in Snapshots :
            LET d == regulate(s, current_mode, reg_config) IN
            (/\ Tick(s) /\ d.mode # current_mode
             /\ now - last_mode_change_time >= MIN_MODE_CHANGE_SECONDS) =>
                (current_mode' = d.mode /\ mode_changed_at' = now)]_vars

\* a mode change that a tick had suppressed has been committed by the tick
\* now in flight
C34_Witness ==
    /\ tick_pc = "sending" /\ mode_changed_at = now
    /\ decision.mode = current_mode
    /\ data.reason.cooldown /\ data.mode # current_mode
    /\ data.reason.rule = decision.reason.rule

\* C35: the cooldown also applies from start-up: a mode transition out of
\* the initial Auto state requested less than 60 seconds after the
\* coordinator was created is suppressed.
C35_CooldownFromStartUp ==
    /\ [](now < 60 =>
            /\ current_mode = AUTO /\ last_commanded_power = 0
            /\ last_mode_change_time = 0 /\ mode_changed_at = -1
            /\ tick_pc = "idle" /\ ~accepted)
    /\ [][\A s \in Snapshots :
            LET d == regulate(s, current_mode, reg_config) IN
            (Tick(s) /\ now < 60 /\ d.mode # AUTO) =>
                /\ data'.reason.cooldown /\ data'.mode = AUTO /\ data'.power = 0
                /\ current_mode' = AUTO]_vars

\* a surplus charge asked for 59 seconds after construction has been
\* suppressed
C35_Witness ==
    /\ now = 59 /\ current_mode = AUTO /\ mode_changed_at = -1
    /\ data.reason = [cooldown |-> TRUE, rule |-> 3]

\* C36: every retry attempt that reaches the actuator sends the same power
\* as the failed command that started its retry sequence, which is also the
\* power the coordinator holds at that moment.
C36_RetrySendsOriginalPower ==
    /\ [](\A t \in tasks :
            /\ t.st = "sending" => (t.call = t.origin /\ t.call = last_commanded_power)
            /\ Alive(t) => t.origin = last_commanded_power)
    /\ [][\A t \in tasks : RetryWake(t) =>
            \E u \in tasks' : u.st = "sending" /\ u.call = t.origin
                              /\ u.sends = t.sends + 1]_vars

\* the second attempt of a retry sequence is in flight, for a command that
\* was a power adjustment
C36_Witness ==
    \E t \in tasks :
        /\ t.st = "sending" /\ t.sends = 2
        /\ t.origin = -480 /\ t.call = -480

\* the reading is missing or invalid: the entity is absent, its state is
\* 'unavailable' or 'unknown', or it is a string that is no numeral
InvalidNumber(raw) ==
    raw \in {ABSENT, "unavailable", "unknown", "abc", "nan", "inf"}

\* C37: a missing or invalid sensor reading never makes _read_state (and so
\* the tick) fail and never reaches regulate: the snapshot is built with the
\* default instead (0 for the integer readings, 0.0 for the forecast
\* readings, is_off_peak = false, tariff colour absent).
C37_InvalidReadingGivesDefault ==
    result.called =>
        /\ ~result.raised
        /\ InvalidNumber(args.grid_power) => result.state.grid_power = 0
        /\ InvalidNumber(args.battery_soc) => result.state.battery_soc = 0
        /\ InvalidNumber(args.battery_power) => result.state.battery_power_abs = 0
        /\ InvalidNumber(args.solar_forecast) =>
              result.state.solar_forecast_kwh = Float("finite", 0)
        /\ InvalidNumber(args.solar_remaining) =>
              result.state.solar_remaining_kwh = Float("finite", 0)
        /\ args.hc_hp \in {ABSENT, "unavailable", "unknown"} =>
              ~result.state.is_off_peak
        /\ args.tempo_color \in {NOT_CONFIGURED, ABSENT, "unavailable", "unknown"} =>
              result.state.tempo_color = "None"

====
